---------------------------- MODULE Spec2Model ----------------------------
(***************************************************************************)
(* Model of openflexure-example.py: the Tk application that jogs the       *)
(* microscope stage, toggles the camera preview, sets the LED brightness   *)
(* and runs the timed capture loop, together with parse_time_value.        *)
(*                                                                         *)
(* Conventions                                                             *)
(*  - Time is counted in whole seconds (now).  The clock advances while    *)
(*    the event loop is at rest, while a modal dialog is open and while    *)
(*    the blocking camera call take_photo runs.  The straight-line Python  *)
(*    between two hardware calls of one handler takes less than a second.  *)
(*  - A pending root.after callback fires as soon as it is due: between    *)
(*    frames the event loop is idle, so the clock cannot pass a due time   *)
(*    while the loop is at rest.                                           *)
(*  - Brightness and LED level are in hundredths (0.33 is 33).             *)
(*  - Texts are sequences of one-character strings.                        *)
(*  - A hardware call that faults raises out of the handler; Tk reports    *)
(*    the exception and returns to the event loop (pc = "idle").  The      *)
(*    calls followed through a fault are take_photo, start_preview and     *)
(*    move_rel.                                                            *)
(*  - A message box is modal: while it is open no button can be pressed,   *)
(*    and no callback is pending whenever one opens.                       *)
(***************************************************************************)
EXTENDS Integers, Sequences, FiniteSets, TLC

(***************************************************************************)
(* Bounds and program constants                                            *)
(***************************************************************************)
MaxTime == 3

\* the last instant explored when one session is followed to its end
ScenarioTime == 16

DEFAULT_FINE_INCREMENT == 50
DEFAULT_COARSE_INCREMENT == 500
DEFAULT_LED_BRIGHTNESS == 33

\* Python's None as returned by parse_time_value, and the value of an
\* attribute (after_id, folder, end_time) that holds no object yet.
NoneVal == -1

(***************************************************************************)
(* parse_time_value                                                        *)
(***************************************************************************)
DigitValue ==
    [c \in {"0", "1", "2", "3", "4", "5", "6", "7", "8", "9"} |->
        CASE c = "0" -> 0 [] c = "1" -> 1 [] c = "2" -> 2 [] c = "3" -> 3
          [] c = "4" -> 4 [] c = "5" -> 5 [] c = "6" -> 6 [] c = "7" -> 7
          [] c = "8" -> 8 [] c = "9" -> 9]

\* \d
IsDigit(c) == c \in DOMAIN DigitValue

\* \s
IsSpace(c) == c = " "

\* re.IGNORECASE on the unit letters
LowerCase(c) ==
    CASE c = "D" -> "d" [] c = "H" -> "h" [] c = "M" -> "m" [] c = "S" -> "s"
      [] OTHER -> c

\* the unit letters of the four groups, in pattern order, and their weights
UnitLetter == <<"d", "h", "m", "s">>
UnitSeconds == <<86400, 3600, 60, 1>>

SkipSpace_None(s, i) == i

RECURSIVE SkipSpace(_, _)
\* \s* : the first index >= i that holds no whitespace
SkipSpace(s, i) ==
    IF i <= Len(s) /\ IsSpace(s[i]) THEN SkipSpace(s, i + 1) ELSE i

RECURSIVE SkipDigits(_, _)
\* \d+ : the first index >= i that holds no digit
SkipDigits(s, i) ==
    IF i <= Len(s) /\ IsDigit(s[i]) THEN SkipDigits(s, i + 1) ELSE i

IntOf_LastDigit(s, i, e) == IF e <= i THEN 0 ELSE DigitValue[s[e - 1]]

RECURSIVE IntOf(_, _, _)
\* int() of the digit run s[i .. e-1]
IntOf(s, i, e) ==
    IF e <= i THEN 0 ELSE IntOf(s, i, e - 1) * 10 + DigitValue[s[e - 1]]

RECURSIVE LastNonSpace(_, _)
LastNonSpace(s, i) ==
    IF i >= 1 /\ IsSpace(s[i]) THEN LastNonSpace(s, i - 1) ELSE i

\* str.strip()
Strip(s) ==
    LET a == SkipSpace(s, 1)
        b == LastNonSpace(s, Len(s))
    IN  IF a > b THEN <<>> ELSE SubSeq(s, a, b)

AtEnd_Unanchored(s, j) == TRUE

\* $ : index j is past the last character
AtEnd(s, j) == j > Len(s)

RECURSIVE MatchFrom(_, _, _)
\* The rest of the pattern from group k at index i:
\*   \s*((\d+)\s*<unit k>)? ... \s*$
\* The optional group is tried first and given up when the rest fails, as
\* the backtracking matcher does.  The result is the weighted sum of the
\* groups that took part, or NoneVal when there is no match.
MatchFrom(s, i, k) ==
    LET j == SkipSpace(s, i)
    IN  IF k > 4
        THEN IF AtEnd(s, j) THEN 0 ELSE NoneVal
        ELSE LET e == SkipDigits(s, j)
                 p == SkipSpace(s, e)
                 present == e > j /\ p <= Len(s)
                              /\ LowerCase(s[p]) = UnitLetter[k]
                 taken == IF present THEN MatchFrom(s, p + 1, k + 1)
                                     ELSE NoneVal
             IN  IF taken # NoneVal
                 THEN IntOf(s, j, e) * UnitSeconds[k] + taken
                 ELSE MatchFrom(s, j, k + 1)

parse_time_value(time_str) == MatchFrom(Strip(time_str), 1, 1)


(***************************************************************************)
(* The operator's inputs                                                   *)
(***************************************************************************)
\* texts the operator may type into the duration and frequency entries
Text30m == <<"3", "0", "m">>
Text5s == <<"5", "s">>
Text10s == <<"1", "0", "s">>
Text2s == <<"2", "s">>
Text1s == <<"1", "s">>
Text0s == <<"0", "s">>
TextWords == <<"5", " ", "s", "e", "c">>

DurationTexts == {Text30m, Text2s, Text0s}
FrequencyTexts == {Text5s, Text1s, TextWords}

\* positions of the brightness scale the operator may choose (hundredths)
BrightnessChoices == {DEFAULT_LED_BRIGHTNESS, 100}

\* increments the operator may enter in the askinteger dialogs (minvalue=1)
IncrementChoices == {DEFAULT_FINE_INCREMENT, DEFAULT_COARSE_INCREMENT}

\* the direction vectors of the six jog buttons
axes ==
    {<<1, 0, 0>>, <<0, 1, 0>>, <<0, 0, 1>>,
     <<-1, 0, 0>>, <<0, -1, 0>>, <<0, 0, -1>>}

NoRel == <<0, 0, 0>>

(***************************************************************************)
(* State                                                                   *)
(***************************************************************************)
VARIABLES
    now,                    \* datetime.datetime.now(), in seconds
    led,                    \* the hardware level of board.illumination.cc_led
    cam_preview,            \* the camera's preview is running
    timers,                 \* the pending root.after callbacks
    motor_increment_fine,
    motor_increment_coarse,
    led_brightness,
    timelapse_running,
    after_id,
    previewing,
    coarse_buttons,         \* the increment bound into the coarse lambdas
    fine_buttons,           \* the increment bound into the fine lambdas
    jog_state,              \* state of the twelve jog buttons
    change_inc_state,       \* state of change_inc_btn
    led_scale_state,        \* state of led_scale
    preview_btn_state,      \* state of preview_btn
    start_btn_command,      \* the command bound to start_btn
    duration_entry,
    freq_entry,
    folder,                 \* the start instant that names the session folder
    end_time,
    pc,                     \* where the running handler stands; "idle" at rest
    rel,                    \* the argument of the running move()
    freq,                   \* the argument of the running capture_loop()
    frames,                 \* photos written by the current session
    first_end,              \* when the session's first take_photo returned
    ts,                     \* the timestamp capture_loop last formatted
    sent,                   \* the move_rel commands the running move() issued
    time_str,               \* the argument of a call of parse_time_value
    returned,               \* that call has returned
    result                  \* what it returned

hardware == <<led, cam_preview>>
widgets == <<jog_state, change_inc_state, led_scale_state, preview_btn_state>>
increments ==
    <<motor_increment_fine, motor_increment_coarse, coarse_buttons,
      fine_buttons>>
entries == <<duration_entry, freq_entry>>
session == <<folder, end_time, frames, first_end>>
parsing == <<time_str, returned, result>>

vars ==
    <<now, led, cam_preview, timers, motor_increment_fine,
      motor_increment_coarse, led_brightness, timelapse_running, after_id,
      previewing, coarse_buttons, fine_buttons, jog_state, change_inc_state,
      led_scale_state, preview_btn_state, start_btn_command, duration_entry,
      freq_entry, folder, end_time, pc, rel, freq, frames, first_end, ts,
      sent, time_str, returned, result>>

\* a modal messagebox is open
Dialogs == {"dlg_error", "dlg_stopped", "dlg_done"}

\* App.__init__
Init ==
    /\ now = 0
    /\ led = 0
    /\ cam_preview = FALSE
    /\ timers = {}
    /\ motor_increment_fine = DEFAULT_FINE_INCREMENT
    /\ motor_increment_coarse = DEFAULT_COARSE_INCREMENT
    /\ led_brightness = DEFAULT_LED_BRIGHTNESS
    /\ timelapse_running = FALSE
    /\ after_id = NoneVal
    /\ previewing = FALSE
    /\ coarse_buttons = DEFAULT_COARSE_INCREMENT
    /\ fine_buttons = DEFAULT_FINE_INCREMENT
    /\ jog_state = "normal"
    /\ change_inc_state = "normal"
    /\ led_scale_state = "normal"
    /\ preview_btn_state = "normal"
    /\ start_btn_command = "start_timelapse"
    /\ duration_entry = Text30m
    /\ freq_entry = Text5s
    /\ folder = NoneVal
    /\ end_time = NoneVal
    /\ pc = "idle"
    /\ rel = NoRel
    /\ freq = NoneVal
    /\ frames = 0
    /\ first_end = NoneVal
    /\ ts = NoneVal
    /\ sent = <<>>
    /\ time_str = <<>>
    /\ returned = FALSE
    /\ result = NoneVal

(***************************************************************************)
(* The environment: the clock and the operator's typing                    *)
(***************************************************************************)
\* One second passes, up to the instant limit.  At rest a due callback
\* fires before the clock moves on.
TickTo(limit) ==
    /\ UNCHANGED <<ts, sent, parsing>>
    /\ now < limit
    /\ \/ pc = "photo"
       \/ pc \in Dialogs
       \/ pc = "idle" /\ \A t \in timers : t.due > now
    /\ now' = now + 1
    /\ UNCHANGED <<hardware, timers, increments, led_brightness,
                   timelapse_running, after_id, previewing, widgets,
                   start_btn_command, entries, session, pc, rel, freq>>

Tick == TickTo(MaxTime)

\* the operator types into an entry; what is typed is read by the next
\* start_timelapse only, so typing is followed while no session is on
TypeDuration ==
    /\ UNCHANGED <<ts, sent, parsing>>
    /\ pc = "idle"
    /\ start_btn_command = "start_timelapse"
    /\ \E t \in DurationTexts : t # duration_entry /\ duration_entry' = t
    /\ UNCHANGED <<now, hardware, timers, increments, led_brightness,
                   timelapse_running, after_id, previewing, widgets,
                   start_btn_command, freq_entry, session, pc, rel, freq>>

TypeFrequency ==
    /\ UNCHANGED <<ts, sent, parsing>>
    /\ pc = "idle"
    /\ start_btn_command = "start_timelapse"
    /\ \E t \in FrequencyTexts : t # freq_entry /\ freq_entry' = t
    /\ UNCHANGED <<now, hardware, timers, increments, led_brightness,
                   timelapse_running, after_id, previewing, widgets,
                   start_btn_command, duration_entry, session, pc, rel, freq>>

(***************************************************************************)
(* Jog: build_motor_controls, change_increments, move                      *)
(***************************************************************************)
ScaleAxis_EveryAxis(d, inc) == <<inc, inc, inc>>

\* rel_c / rel_f of build_motor_controls: the direction scaled by an increment
ScaleAxis(d, inc) == <<d[1] * inc, d[2] * inc, d[3] * inc>>

\* change_increments: either dialog may be cancelled (NoneVal), and then
\* nothing changes; otherwise both increments are stored and the buttons are
\* built anew (created in state normal) around the new values.
change_increments ==
    /\ UNCHANGED <<ts, sent, parsing>>
    /\ pc = "idle"
    /\ change_inc_state = "normal"
    /\ \E new_coarse \in IncrementChoices \cup {NoneVal},
          new_fine \in IncrementChoices \cup {NoneVal} :
          IF new_coarse = NoneVal \/ new_fine = NoneVal
          THEN UNCHANGED <<increments, jog_state>>
          ELSE /\ motor_increment_coarse' = new_coarse
               /\ motor_increment_fine' = new_fine
               /\ coarse_buttons' = new_coarse
               /\ fine_buttons' = new_fine
               /\ jog_state' = "normal"
    /\ UNCHANGED <<now, hardware, timers, led_brightness, timelapse_running,
                   after_id, previewing, change_inc_state, led_scale_state,
                   preview_btn_state, start_btn_command, entries, session,
                   pc, rel, freq>>

\* a jog button is pressed: move(rel) lights the LED ...
move ==
    /\ UNCHANGED <<ts, sent, parsing>>
    /\ pc = "idle"
    /\ jog_state = "normal"
    /\ \E d \in axes, inc \in {coarse_buttons, fine_buttons} :
          rel' = ScaleAxis(d, inc)
    /\ led' = led_brightness
    /\ pc' = "move"
    /\ UNCHANGED <<now, cam_preview, timers, increments, led_brightness,
                   timelapse_running, after_id, previewing, widgets,
                   start_btn_command, entries, session, freq>>

\* ... board.move_rel(list(rel)) returns ...
move_rel ==
    /\ UNCHANGED <<ts, parsing>>
    /\ pc = "move"
    /\ sent' = Append(sent, rel)
    /\ pc' = "move_done"
    /\ UNCHANGED <<now, hardware, timers, increments, led_brightness,
                   timelapse_running, after_id, previewing, widgets,
                   start_btn_command, entries, session, rel, freq>>

\* ... or faults, and the exception leaves move() ...
move_rel_fault ==
    /\ UNCHANGED <<ts, sent, parsing>>
    /\ pc = "move"
    /\ pc' = "idle"
    /\ rel' = NoRel
    /\ UNCHANGED <<now, hardware, timers, increments, led_brightness,
                   timelapse_running, after_id, previewing, widgets,
                   start_btn_command, entries, session, freq>>

\* ... and the LED is put out after the move.
move_led_off ==
    /\ UNCHANGED <<ts, parsing>>
    /\ pc = "move_done"
    /\ sent' = <<>>
    /\ led' = 0
    /\ pc' = "idle"
    /\ rel' = NoRel
    /\ UNCHANGED <<now, cam_preview, timers, increments, led_brightness,
                   timelapse_running, after_id, previewing, widgets,
                   start_btn_command, entries, session, freq>>

(***************************************************************************)
(* Brightness and preview                                                  *)
(***************************************************************************)
\* the scale is moved to val
update_led ==
    /\ UNCHANGED <<ts, sent, parsing>>
    /\ pc = "idle"
    /\ led_scale_state = "normal"
    /\ \E val \in BrightnessChoices :
          /\ val # led_brightness
          /\ led_brightness' = val
          /\ led' = IF previewing THEN val ELSE led
    /\ UNCHANGED <<now, cam_preview, timers, increments, timelapse_running,
                   after_id, previewing, widgets, start_btn_command, entries,
                   session, pc, rel, freq>>

\* toggle_preview up to its first camera call: the LED is lit before
\* start_preview, the preview is stopped before the LED is put out
toggle_preview ==
    /\ UNCHANGED <<ts, sent, parsing>>
    /\ pc = "idle"
    /\ preview_btn_state = "normal"
    /\ IF ~previewing
       THEN /\ led' = led_brightness
            /\ pc' = "preview_start"
            /\ UNCHANGED cam_preview
       ELSE /\ cam_preview' = FALSE
            /\ pc' = "preview_stop"
            /\ UNCHANGED led
    /\ UNCHANGED <<now, timers, increments, led_brightness,
                   timelapse_running, after_id, previewing, widgets,
                   start_btn_command, entries, session, rel, freq>>

\* cam.start_preview() returns and the flag is set
start_preview ==
    /\ UNCHANGED <<ts, sent, parsing>>
    /\ pc = "preview_start"
    /\ cam_preview' = TRUE
    /\ previewing' = TRUE
    /\ pc' = "idle"
    /\ UNCHANGED <<now, led, timers, increments, led_brightness,
                   timelapse_running, after_id, widgets, start_btn_command,
                   entries, session, rel, freq>>

\* cam.start_preview() faults and the exception leaves toggle_preview
start_preview_fault ==
    /\ UNCHANGED <<ts, sent, parsing>>
    /\ pc = "preview_start"
    /\ pc' = "idle"
    /\ UNCHANGED <<now, hardware, timers, increments, led_brightness,
                   timelapse_running, after_id, previewing, widgets,
                   start_btn_command, entries, session, rel, freq>>

\* after stop_preview: the LED is put out and the flag cleared
preview_led_off ==
    /\ UNCHANGED <<ts, sent, parsing>>
    /\ pc = "preview_stop"
    /\ led' = 0
    /\ previewing' = FALSE
    /\ pc' = "idle"
    /\ UNCHANGED <<now, cam_preview, timers, increments, led_brightness,
                   timelapse_running, after_id, widgets, start_btn_command,
                   entries, session, rel, freq>>

(***************************************************************************)
(* Timelapse: start_timelapse, stop_timelapse, finish_timelapse,           *)
(* _reset_after_timelapse, capture_loop                                    *)
(***************************************************************************)
Rejected_ZeroAccepted(dur, fr) == dur = NoneVal \/ fr = NoneVal

\* not dur or dur <= 0 or not freq or freq <= 0
Rejected(dur, fr) ==
    \/ dur = NoneVal \/ dur = 0 \/ dur <= 0
    \/ fr = NoneVal \/ fr = 0 \/ fr <= 0

RunningJogState_Normal == "normal"

\* the state start_timelapse gives the jog buttons
RunningJogState == "disabled"

SessionEnd_NoDuration(t, dur) == t

\* now + datetime.timedelta(seconds=dur)
SessionEnd(t, dur) == t + dur

EndReached_Strict(t, e) == t > e

\* datetime.datetime.now() >= self.end_time
EndReached(t, e) == t >= e

Due_Doubled(t, f) == t + 2 * f

Due_AtOnce(t, f) == t

\* root.after(int(freq * 1000), ...): the instant the callback is due
Due(t, f) == t + f

\* The identifier root.after returns.  Tk never hands out an identifier
\* twice; the program only compares identifiers for equality, so the least
\* one that is held nowhere stands for the new one.
NewAfterId ==
    LET used == {after_id} \cup {t.id : t \in timers}
    IN  CHOOSE i \in 1..(Cardinality(used) + 1) :
            i \notin used /\ \A j \in 1..(i - 1) : j \in used

\* the start button is pressed while it is bound to start_timelapse
start_timelapse ==
    /\ UNCHANGED <<sent, parsing>>
    /\ pc = "idle"
    /\ start_btn_command = "start_timelapse"
    /\ ~timelapse_running
    /\ LET dur == parse_time_value(duration_entry)
           fr == parse_time_value(freq_entry)
       IN  IF Rejected(dur, fr)
           THEN /\ pc' = "dlg_error"
                /\ UNCHANGED <<widgets, start_btn_command, timelapse_running,
                               session, freq, ts>>
           ELSE /\ jog_state' = RunningJogState
                /\ change_inc_state' = "disabled"
                /\ led_scale_state' = "disabled"
                /\ preview_btn_state' = "disabled"
                /\ folder' = now
                /\ end_time' = SessionEnd(now, dur)
                /\ start_btn_command' = "stop_timelapse"
                /\ timelapse_running' = TRUE
                /\ freq' = fr
                /\ frames' = 0
                /\ first_end' = NoneVal
                /\ ts' = NoneVal
                /\ pc' = "loop_top"
    /\ UNCHANGED <<now, hardware, timers, increments, led_brightness,
                   after_id, previewing, entries, rel>>

\* the operator closes the "Invalid duration or frequency" box
dismiss_error ==
    /\ UNCHANGED <<ts, sent, parsing>>
    /\ pc = "dlg_error"
    /\ pc' = "idle"
    /\ UNCHANGED <<now, hardware, timers, increments, led_brightness,
                   timelapse_running, after_id, previewing, widgets,
                   start_btn_command, entries, session, rel, freq>>

after_cancel_Forgotten(id) == timers

\* root.after_cancel(id): the callback registered under id is dropped
after_cancel(id) == {t \in timers : t.id # id}

\* the start button is pressed while it is bound to stop_timelapse
stop_timelapse ==
    /\ UNCHANGED <<ts, sent, parsing>>
    /\ pc = "idle"
    /\ start_btn_command = "stop_timelapse"
    /\ timers' = IF after_id # NoneVal
                 THEN after_cancel(after_id)
                 ELSE timers
    /\ pc' = "dlg_stopped"
    /\ UNCHANGED <<now, hardware, increments, led_brightness,
                   timelapse_running, after_id, previewing, widgets,
                   start_btn_command, entries, session, rel, freq>>

\* the assignments of _reset_after_timelapse
_reset_after_timelapse ==
    /\ jog_state' = "normal"
    /\ change_inc_state' = "normal"
    /\ led_scale_state' = "normal"
    /\ preview_btn_state' = "normal"
    /\ start_btn_command' = "start_timelapse"
    /\ timelapse_running' = FALSE

\* the operator closes the "Timelapse stopped early" box
dismiss_stopped ==
    /\ UNCHANGED <<ts, sent, parsing>>
    /\ pc = "dlg_stopped"
    /\ _reset_after_timelapse
    /\ pc' = "idle"
    /\ UNCHANGED <<now, hardware, timers, increments, led_brightness,
                   after_id, previewing, entries, session, rel, freq>>

\* the operator closes the "Timelapse complete" box
dismiss_done ==
    /\ UNCHANGED <<ts, sent, parsing>>
    /\ pc = "dlg_done"
    /\ _reset_after_timelapse
    /\ pc' = "idle"
    /\ UNCHANGED <<now, hardware, timers, increments, led_brightness,
                   after_id, previewing, entries, session, rel, freq>>

\* a due callback fires: lambda: self.capture_loop(freq)
timer_fires ==
    /\ UNCHANGED <<ts, sent, parsing>>
    /\ pc = "idle"
    /\ \E t \in timers :
          /\ t.due <= now
          /\ timers' = timers \ {t}
          /\ freq' = t.freq
    /\ pc' = "loop_top"
    /\ UNCHANGED <<now, hardware, increments, led_brightness,
                   timelapse_running, after_id, previewing, widgets,
                   start_btn_command, entries, session, rel>>

\* capture_loop from its loop-top check to the call of take_photo
capture_loop ==
    /\ UNCHANGED <<sent, parsing>>
    /\ pc = "loop_top"
    /\ IF EndReached(now, end_time)
       THEN /\ pc' = "dlg_done"
            /\ freq' = NoneVal
            /\ UNCHANGED <<led, ts>>
       ELSE /\ ts' = now
            /\ led' = led_brightness
            /\ pc' = "photo"
            /\ UNCHANGED freq
    /\ UNCHANGED <<now, cam_preview, timers, increments, led_brightness,
                   timelapse_running, after_id, previewing, widgets,
                   start_btn_command, entries, session, rel>>

\* cam.take_photo(fname) returns: the frame is on disk
take_photo ==
    /\ UNCHANGED <<ts, sent, parsing>>
    /\ pc = "photo"
    /\ frames' = frames + 1
    /\ first_end' = IF frames = 0 THEN now ELSE first_end
    /\ pc' = "photo_done"
    /\ UNCHANGED <<now, hardware, timers, increments, led_brightness,
                   timelapse_running, after_id, previewing, widgets,
                   start_btn_command, entries, folder, end_time, rel, freq>>

\* cam.take_photo(fname) faults and the exception leaves capture_loop
take_photo_fault ==
    /\ UNCHANGED <<ts, sent, parsing>>
    /\ pc = "photo"
    /\ pc' = "idle"
    /\ freq' = NoneVal
    /\ UNCHANGED <<now, hardware, timers, increments, led_brightness,
                   timelapse_running, after_id, previewing, widgets,
                   start_btn_command, entries, session, rel>>

\* capture_loop after take_photo: the LED is put out and the next
\* invocation is registered with root.after
reschedule ==
    /\ UNCHANGED <<ts, sent, parsing>>
    /\ pc = "photo_done"
    /\ led' = 0
    /\ after_id' = NewAfterId
    /\ timers' = timers \cup
                    {[id |-> NewAfterId, due |-> Due(now, freq), freq |-> freq]}
    /\ pc' = "idle"
    /\ freq' = NoneVal
    /\ UNCHANGED <<now, cam_preview, increments, led_brightness,
                   timelapse_running, previewing, widgets, start_btn_command,
                   entries, session, rel>>

(***************************************************************************)
(* Specification                                                           *)
(***************************************************************************)
Next ==
    \/ Tick
    \/ TypeDuration
    \/ TypeFrequency
    \/ change_increments
    \/ move
    \/ move_rel
    \/ move_rel_fault
    \/ move_led_off
    \/ update_led
    \/ toggle_preview
    \/ start_preview
    \/ start_preview_fault
    \/ preview_led_off
    \/ start_timelapse
    \/ dismiss_error
    \/ stop_timelapse
    \/ dismiss_stopped
    \/ dismiss_done
    \/ timer_fires
    \/ capture_loop
    \/ take_photo
    \/ take_photo_fault
    \/ reschedule

Spec == Init /\ [][Next]_vars

(***************************************************************************)
(* One session followed to its end: the entries hold "10s" and "5s", and   *)
(* the operator only starts, stops and closes the message boxes.           *)
(***************************************************************************)
ScenarioInit ==
    /\ now = 0
    /\ led = 0
    /\ cam_preview = FALSE
    /\ timers = {}
    /\ motor_increment_fine = DEFAULT_FINE_INCREMENT
    /\ motor_increment_coarse = DEFAULT_COARSE_INCREMENT
    /\ led_brightness = DEFAULT_LED_BRIGHTNESS
    /\ timelapse_running = FALSE
    /\ after_id = NoneVal
    /\ previewing = FALSE
    /\ coarse_buttons = DEFAULT_COARSE_INCREMENT
    /\ fine_buttons = DEFAULT_FINE_INCREMENT
    /\ jog_state = "normal"
    /\ change_inc_state = "normal"
    /\ led_scale_state = "normal"
    /\ preview_btn_state = "normal"
    /\ start_btn_command = "start_timelapse"
    /\ duration_entry = Text10s
    /\ freq_entry = Text5s
    /\ folder = NoneVal
    /\ end_time = NoneVal
    /\ pc = "idle"
    /\ rel = NoRel
    /\ freq = NoneVal
    /\ frames = 0
    /\ first_end = NoneVal
    /\ ts = NoneVal
    /\ sent = <<>>
    /\ time_str = <<>>
    /\ returned = FALSE
    /\ result = NoneVal

ScenarioTick == TickTo(ScenarioTime)

ScenarioNext ==
    \/ ScenarioTick
    \/ start_timelapse
    \/ stop_timelapse
    \/ dismiss_stopped
    \/ dismiss_done
    \/ timer_fires
    \/ capture_loop
    \/ take_photo
    \/ take_photo_fault
    \/ reschedule

ScenarioSpec == ScenarioInit /\ [][ScenarioNext]_vars

(***************************************************************************)
(* Sessions under fairness: the clock advances, a due callback fires, and  *)
(* a handler that has begun runs on to its return or to its exception.     *)
(* Sessions are short and begin early enough to end before LiveTime.       *)
(***************************************************************************)
\* the last instant of the clock
LiveTime == 6

LiveInit ==
    /\ now = 0
    /\ led = 0
    /\ cam_preview = FALSE
    /\ timers = {}
    /\ motor_increment_fine = DEFAULT_FINE_INCREMENT
    /\ motor_increment_coarse = DEFAULT_COARSE_INCREMENT
    /\ led_brightness = DEFAULT_LED_BRIGHTNESS
    /\ timelapse_running = FALSE
    /\ after_id = NoneVal
    /\ previewing = FALSE
    /\ coarse_buttons = DEFAULT_COARSE_INCREMENT
    /\ fine_buttons = DEFAULT_FINE_INCREMENT
    /\ jog_state = "normal"
    /\ change_inc_state = "normal"
    /\ led_scale_state = "normal"
    /\ preview_btn_state = "normal"
    /\ start_btn_command = "start_timelapse"
    /\ duration_entry \in {Text1s, Text2s}
    /\ freq_entry \in {Text1s, Text2s}
    /\ folder = NoneVal
    /\ end_time = NoneVal
    /\ pc = "idle"
    /\ rel = NoRel
    /\ freq = NoneVal
    /\ frames = 0
    /\ first_end = NoneVal
    /\ ts = NoneVal
    /\ sent = <<>>
    /\ time_str = <<>>
    /\ returned = FALSE
    /\ result = NoneVal

\* the clock advances; an exposure lasts no longer than leaves the next
\* callback due by LiveTime
LiveTick ==
    /\ (pc = "photo") => now + 1 + freq <= LiveTime
    /\ TickTo(LiveTime)

\* start_timelapse, pressed early enough for the session to end by LiveTime
LiveStart ==
    /\ now + parse_time_value(duration_entry) + parse_time_value(freq_entry)
          <= LiveTime
    /\ start_timelapse

LiveNext ==
    \/ LiveTick
    \/ LiveStart
    \/ stop_timelapse
    \/ dismiss_stopped
    \/ dismiss_done
    \/ timer_fires
    \/ capture_loop
    \/ take_photo
    \/ take_photo_fault
    \/ reschedule

LiveSpec ==
    /\ LiveInit
    /\ [][LiveNext]_vars
    /\ WF_vars(LiveTick)
    /\ WF_vars(timer_fires)
    /\ WF_vars(capture_loop)
    /\ WF_vars(take_photo \/ take_photo_fault)
    /\ WF_vars(reschedule)

(***************************************************************************)
(* parse_time_value on its own: one call on an arbitrary text              *)
(***************************************************************************)
\* longest text drawn from the alphabet
MaxLen == 4

ParseAlphabet == {"1", " ", "d", "m", "s", "S", "a"}

Text1d4h30m == <<"1", "d", " ", "4", "h", " ", "3", "0", "m">>
Text2h == <<"2", "h">>
Text5seconds == <<"5", " ", "s", "e", "c", "o", "n", "d", "s">>
TextAbc == <<"a", "b", "c">>
TextMinus5s == <<"-", "5", "s">>
Text30m1h == <<"3", "0", "m", " ", "1", "h">>
Text1s2s == <<"1", "s", " ", "2", "s">>
TextUpper == <<"1", "D", " ", "2", "H", " ", "3", "M", " ", "4", "S">>
TextPadded == <<" ", "1", "0", " ", "m", " ">>
TextBlank == <<" ", " ">>

SampleTexts ==
    {Text1d4h30m, Text2h, Text5s, Text5seconds, TextAbc, TextMinus5s,
     Text30m1h, Text1s2s, TextUpper, TextPadded, TextBlank}

\* the texts parse_time_value is called on
ParseTexts ==
    SampleTexts \cup UNION {[1..n -> ParseAlphabet] : n \in 0..MaxLen}

ParseInit ==
    /\ time_str \in ParseTexts
    /\ returned = FALSE
    /\ result = NoneVal
    /\ now = 0
    /\ led = 0
    /\ cam_preview = FALSE
    /\ timers = {}
    /\ motor_increment_fine = DEFAULT_FINE_INCREMENT
    /\ motor_increment_coarse = DEFAULT_COARSE_INCREMENT
    /\ led_brightness = DEFAULT_LED_BRIGHTNESS
    /\ timelapse_running = FALSE
    /\ after_id = NoneVal
    /\ previewing = FALSE
    /\ coarse_buttons = DEFAULT_COARSE_INCREMENT
    /\ fine_buttons = DEFAULT_FINE_INCREMENT
    /\ jog_state = "normal"
    /\ change_inc_state = "normal"
    /\ led_scale_state = "normal"
    /\ preview_btn_state = "normal"
    /\ start_btn_command = "start_timelapse"
    /\ duration_entry = Text30m
    /\ freq_entry = Text5s
    /\ folder = NoneVal
    /\ end_time = NoneVal
    /\ pc = "idle"
    /\ rel = NoRel
    /\ freq = NoneVal
    /\ frames = 0
    /\ first_end = NoneVal
    /\ ts = NoneVal
    /\ sent = <<>>

\* parse_time_value(time_str) is called and returns
parse_call ==
    /\ ~returned
    /\ returned' = TRUE
    /\ result' = parse_time_value(time_str)
    /\ UNCHANGED <<time_str, now, hardware, widgets, increments, entries,
                   session, ts, sent, timers, led_brightness,
                   timelapse_running, after_id, previewing,
                   start_btn_command, pc, rel, freq>>

ParseNext == parse_call

ParseSpec == ParseInit /\ [][ParseNext]_vars

(***************************************************************************)
(* Properties                                                              *)
(***************************************************************************)
\* every variable but pc
allButPc ==
    <<now, led, cam_preview, timers, motor_increment_fine,
      motor_increment_coarse, led_brightness, timelapse_running, after_id,
      previewing, coarse_buttons, fine_buttons, jog_state, change_inc_state,
      led_scale_state, preview_btn_state, start_btn_command, duration_entry,
      freq_entry, folder, end_time, rel, freq, frames, first_end, ts,
      sent, time_str, returned, result>>

\* every variable but pc and the clock
allButPcAndClock ==
    <<led, cam_preview, timers, motor_increment_fine,
      motor_increment_coarse, led_brightness, timelapse_running, after_id,
      previewing, coarse_buttons, fine_buttons, jog_state, change_inc_state,
      led_scale_state, preview_btn_state, start_btn_command, duration_entry,
      freq_entry, folder, end_time, rel, freq, frames, first_end, ts,
      sent, time_str, returned, result>>

\* a step that leaves an illumination bracket: take_photo faulted,
\* capture_loop closed its bracket after take_photo, start_preview faulted
BracketLeft ==
    \/ pc = "photo" /\ pc' = "idle"
    \/ pc = "photo_done" /\ pc' = "idle"
    \/ pc = "preview_start" /\ pc' = "idle" /\ ~previewing'

\* C1: whenever a bracketed camera call is left, by a fault of take_photo or
\* of start_preview or by the normal end of a capture, the LED level right
\* after the bracket is 0.
C1_BracketRestoresLed == [][BracketLeft => led' = 0]_vars

\* the preview window, from the first to the last hardware call of the two
\* toggles that open and close it
PreviewWindow ==
    previewing \/ cam_preview \/ pc \in {"preview_start", "preview_stop"}

\* the exposure bracket of capture_loop
ExposureWindow == pc \in {"photo", "photo_done"}

\* C2: in every state, the states between the hardware calls of a handler
\* included, the LED level is 0 unless the preview is active or a photo
\* exposure is in progress.
C2_LedOffOutsideWindows == led = 0 \/ PreviewWindow \/ ExposureWindow

\* C3: while the preview is active and the program is at rest between
\* operator actions of the interactive phase, the LED level equals the
\* configured brightness.
C3_PreviewKeepsBrightness ==
    (previewing /\ pc = "idle" /\ ~timelapse_running) => led = led_brightness

\* C4: while a timelapse is running the preview is not active.
C4_NoPreviewWhileRunning ==
    timelapse_running => ~previewing /\ ~cam_preview

\* the text fails to parse or parses to 0
Invalid(text) ==
    parse_time_value(text) = NoneVal \/ parse_time_value(text) = 0

\* the start button, bound to start_timelapse, is pressed
StartPressed ==
    /\ pc = "idle"
    /\ pc' \in {"dlg_error", "loop_top"}
    /\ start_btn_command = "start_timelapse"
    /\ timers' = timers

\* C5: start_timelapse with a duration or frequency text that fails to
\* parse or parses to 0 only reports the validation error: no field, widget,
\* timer, frame count or LED level changes, then or when the error box is
\* closed; and a session begins only with two valid positive settings.
C5_InvalidSettingsRejected ==
    [][/\ (StartPressed /\ (Invalid(duration_entry) \/ Invalid(freq_entry)))
            => (pc' = "dlg_error" /\ UNCHANGED allButPc)
       /\ (pc = "dlg_error" /\ pc' # pc)
            => (pc' = "idle" /\ UNCHANGED allButPc)
       /\ (pc = "dlg_error" /\ pc' = pc) => UNCHANGED allButPcAndClock
       /\ (~timelapse_running /\ timelapse_running')
            => ~(Invalid(duration_entry) \/ Invalid(freq_entry))]_vars

\* C5 witness: the error box is open after a start with "0s" as duration
\* and an unparsable frequency, and nothing else has changed since Init.
C5_Witness ==
    /\ pc = "dlg_error"
    /\ parse_time_value(duration_entry) = 0
    /\ parse_time_value(freq_entry) = NoneVal
    /\ ~timelapse_running /\ folder = NoneVal /\ timers = {}

\* C6: when an early stop issued after at least one captured frame has been
\* carried out, no callback is pending, the frame count is what it was at
\* the stop, timelapse_running is false and the LED level is 0.
C6_StopEndsSession ==
    [][(pc = "dlg_stopped" /\ pc' = "idle" /\ frames >= 1)
            => /\ timers' = {}
               /\ frames' = frames
               /\ ~timelapse_running'
               /\ led' = 0]_vars

\* C7: a move_rel command is sent only while no timelapse is running, and
\* while one is running the jog buttons and the increment button are
\* disabled.
C7_NoJogWhileRunning ==
    /\ pc \in {"move", "move_done"} => ~timelapse_running
    /\ timelapse_running
         => jog_state = "disabled" /\ change_inc_state = "disabled"

\* C7 witness: a jog is being executed after a session has come and gone.
C7_Witness ==
    pc = "move" /\ folder # NoneVal /\ ~timelapse_running /\ frames >= 1

\* C8: a session's end instant is its start instant plus the duration; a
\* photo begins only at a loop-top check that read now < end_time in a
\* running session; the check that reads now >= end_time finishes the
\* session, takes no photo and registers no callback, and no other step
\* finishes it; a take_photo that returns adds its frame whatever the clock
\* reads by then.
C8_LoopTopDecides ==
    [][/\ (~timelapse_running /\ timelapse_running')
            => /\ folder' = now
               /\ end_time' = now + parse_time_value(duration_entry)
       /\ (pc # "photo" /\ pc' = "photo")
            => pc = "loop_top" /\ timelapse_running /\ now < end_time
       /\ (pc = "loop_top" /\ now >= end_time)
            => /\ pc' = "dlg_done"
               /\ frames' = frames
               /\ timers' = timers
               /\ led' = led
       /\ (pc = "loop_top" /\ now < end_time) => pc' = "photo"
       /\ (pc # "dlg_done" /\ pc' = "dlg_done")
            => pc = "loop_top" /\ now >= end_time
       /\ (pc = "photo" /\ pc' = "photo_done") => frames' = frames + 1]_vars

\* C8 witness: a frame begun before end_time has been completed after it.
C8_Witness == pc = "photo_done" /\ now > end_time /\ frames >= 2

\* the entries hold the settings of the scenario: 10 seconds, every 5 seconds
TenByFive ==
    parse_time_value(duration_entry) = 10 /\ parse_time_value(freq_entry) = 5

C10_FinishedHasFrame == pc = "dlg_done" => frames >= 1

\* C10 witness: a session is Finished with exactly one frame.
C10_Witness == pc = "dlg_done" /\ frames = 1 /\ timelapse_running

\* C11: within one session a frame that follows an earlier frame gets a
\* timestamp strictly later than the previous one, so its path
\* <folder>/<ts>.jpg differs from the path of every earlier frame of the
\* session.
C11_TimestampsIncrease ==
    [][(pc = "loop_top" /\ pc' = "photo" /\ frames >= 1)
            => (ts # NoneVal /\ ts' > ts /\ folder' = folder)]_vars

\* C11 witness: with frequency "1s" the second frame of a session is being
\* taken one second after the first, which took no time.
C11_Witness ==
    /\ pc = "photo" /\ frames = 1
    /\ first_end = folder
    /\ ts = folder + 1

\* r moves one axis only, by inc in one of the two directions
OneAxisBy(r, inc) ==
    \E i \in 1..3, sgn \in {1, -1} :
        r = [j \in 1..3 |-> IF j = i THEN sgn * inc ELSE 0]

\* C12: the buttons always carry the increments last confirmed; a jog takes
\* a vector with exactly one non-zero component, of either sign, whose
\* magnitude is the coarse or the fine increment configured at that moment
\* (at least 1); that vector is the only command the jog sends to the stage;
\* and the increments change only at rest, both buttons following at once.
C12_JogSendsOneCommand ==
    [][/\ (pc = "idle" /\ pc' = "move")
            => /\ \/ OneAxisBy(rel', motor_increment_coarse)
                  \/ OneAxisBy(rel', motor_increment_fine)
               /\ motor_increment_coarse >= 1 /\ motor_increment_fine >= 1
               /\ coarse_buttons = motor_increment_coarse
               /\ fine_buttons = motor_increment_fine
               /\ sent' = <<>>
       /\ (pc = "move" /\ pc' # pc)
            => \/ pc' = "move_done" /\ sent' = <<rel>>
               \/ pc' = "idle" /\ sent' = <<>>
       /\ (pc = "move_done" /\ pc' # pc) => (pc' = "idle" /\ sent = <<rel>>)
       /\ (\/ motor_increment_coarse' # motor_increment_coarse
           \/ motor_increment_fine' # motor_increment_fine)
            => /\ pc = "idle" /\ pc' = "idle"
               /\ coarse_buttons' = motor_increment_coarse'
               /\ fine_buttons' = motor_increment_fine']_vars

\* C12 witness: after both increments were changed to 50, a Y+ jog has sent
\* [0, 50, 0] and nothing else.
C12_Witness ==
    /\ pc = "move_done"
    /\ motor_increment_coarse = 50 /\ motor_increment_fine = 50
    /\ sent = << <<0, 50, 0>> >>

(***************************************************************************)
(* The time grammar, stated without the matcher                            *)
(***************************************************************************)
RECURSIVE DecimalOf(_)
\* the number a run of digits writes
DecimalOf(ds) ==
    IF ds = <<>> THEN 0
    ELSE 10 * DecimalOf(SubSeq(ds, 1, Len(ds) - 1)) + DigitValue[ds[Len(ds)]]

AllSpaces(c) == \A i \in 1..Len(c) : c[i] = " "

\* the values chunk c can have as component k: 0 when it is blank, the
\* integer when it is <int><unit k> with optional whitespace around and
\* between the two
ComponentValues(c, k) ==
    (IF AllSpaces(c) THEN {0} ELSE {})
    \cup
    {DecimalOf(SubSeq(c, a, b)) : <<a, b, u>> \in
        {x \in (1..Len(c)) \X (1..Len(c)) \X (1..Len(c)) :
            /\ x[1] <= x[2] /\ x[2] < x[3]
            /\ AllSpaces(SubSeq(c, 1, x[1] - 1))
            /\ \A i \in x[1]..x[2] : IsDigit(c[i])
            /\ AllSpaces(SubSeq(c, x[2] + 1, x[3] - 1))
            /\ c[x[3]] \in {<<"d", "h", "m", "s">>[k], <<"D", "H", "M", "S">>[k]}
            /\ AllSpaces(SubSeq(c, x[3] + 1, Len(c)))}}

\* every value the grammar gives text t: t is cut into a days, an hours, a
\* minutes and a seconds part, in that order, each a component or blank
GrammarValues(t) ==
    UNION {
        {dv * 86400 + hv * 3600 + mv * 60 + sv :
            <<dv, hv, mv, sv>> \in
                ComponentValues(SubSeq(t, 1, c[1]), 1)
                \X ComponentValues(SubSeq(t, c[1] + 1, c[2]), 2)
                \X ComponentValues(SubSeq(t, c[2] + 1, c[3]), 3)
                \X ComponentValues(SubSeq(t, c[3] + 1, Len(t)), 4)} :
        c \in {x \in (0..Len(t)) \X (0..Len(t)) \X (0..Len(t)) :
                  x[1] <= x[2] /\ x[2] <= x[3]}}

\* C13: called on the empty string or on whitespace only, parse_time_value
\* returns None and no number of seconds.
C13_BlankIsInvalid ==
    (returned /\ AllSpaces(time_str)) => result = NoneVal

\* C14: on every text of the grammar parse_time_value returns the one value
\* days*86400 + hours*3600 + minutes*60 + seconds, an omitted component
\* counting 0.
C14_GrammarGivesWeightedSum ==
    (returned /\ GrammarValues(time_str) # {})
        => GrammarValues(time_str) = {result}

C14_Witness ==
    /\ returned
    /\ time_str = TextUpper
    /\ result = 86400 + 2 * 3600 + 3 * 60 + 4

\* C15: on every text outside the grammar parse_time_value returns None:
\* nothing is accepted on a partial match.
C15_OutsideGrammarIsInvalid ==
    (returned /\ GrammarValues(time_str) = {}) => result = NoneVal

C15_Witness ==
    /\ returned
    /\ time_str \in {Text5seconds, TextAbc, TextMinus5s, Text30m1h, Text1s2s}
    /\ result = NoneVal

\* C16: parse_time_value returns 104400 for "1d 4h 30m", 5 for "5s" and 7200
\* for "2h".
C16_Examples ==
    returned =>
        /\ time_str = Text1d4h30m => result = 104400
        /\ time_str = Text5s => result = 5
        /\ time_str = Text2h => result = 7200

\* C16, amended: parse_time_value returns 102600 (86400 + 4*3600 + 30*60)
\* for "1d 4h 30m", 5 for "5s" and 7200 for "2h".
C16_ExamplesWeighted ==
    returned =>
        /\ time_str = Text1d4h30m => result = 102600
        /\ time_str = Text5s => result = 5
        /\ time_str = Text2h => result = 7200

C16_Witness ==
    /\ returned
    /\ time_str = Text1d4h30m
    /\ result = 102600

\* C17: at most one capture callback is pending at any moment, and none
\* once a session has stopped or finished; a frame is LED on, then
\* take_photo, then LED off, nothing else in between; the LED-on of a
\* session's next frame finds the LED put out by the frame before; and a
\* stop is processed only at rest, never between the LED-on and the LED-off
\* of a frame.
C17_OneCaptureAtATime ==
    /\ [](/\ Cardinality(timers) <= 1
          /\ (pc \in {"dlg_stopped", "dlg_done"}) => timers = {}
          /\ (~timelapse_running) => timers = {})
    /\ [][/\ (pc' = "photo" /\ pc # "photo")
               => (pc = "loop_top" /\ led' = led_brightness /\ timers = {})
          /\ (frames' # frames /\ frames' # 0)
               => (pc = "photo" /\ pc' = "photo_done"
                     /\ frames' = frames + 1 /\ led' = led)
          /\ (pc = "photo_done" /\ pc' # pc)
               => (pc' = "idle" /\ led' = 0 /\ Cardinality(timers') = 1)
          /\ (pc = "loop_top" /\ pc' = "photo" /\ frames >= 1) => led = 0
          /\ (pc \in {"photo", "photo_done"})
               => (timelapse_running' = timelapse_running
                     /\ start_btn_command' = start_btn_command
                     /\ pc' \in {"photo", "photo_done", "idle"})
          /\ (pc' = "dlg_stopped" /\ pc # "dlg_stopped") => pc = "idle"]_vars

\* C17 witness: a session was stopped and a new one started, whose second
\* frame is being exposed with no callback pending.
C17_Witness ==
    /\ pc = "photo" /\ frames = 1
    /\ timers = {}
    /\ after_id # NoneVal /\ after_id >= 2

\* C19: whenever the program is at rest with timelapse_running true, exactly
\* one capture callback is pending, whatever the operator did and whether
\* each take_photo call succeeded or faulted.
C19_RunningHasOneCallback ==
    (timelapse_running /\ pc = "idle") => Cardinality(timers) = 1

\* C18: with the clock advancing and due callbacks firing, every session
\* that has started reaches Finished (the loop-top check finds the end
\* instant passed) or StoppedEarly (the operator stopped it).
C18_SessionEnds ==
    timelapse_running ~> (pc \in {"dlg_done", "dlg_stopped"})

=============================================================================
